---- MODULE Spec2Model ----
(***************************************************************************)
(* Model of src/app.rs: App::create / create_instance (the initialization  *)
(* sequence against the Vulkan loader), App::render, App::destroy and the  *)
(* debug_callback installed by the debug-utils messenger.                  *)
(*                                                                         *)
(* External calls (loader, entry, instance) are steps whose outcome the    *)
(* host chooses; every call the program issues is appended to `calls`.     *)
(***************************************************************************)
EXTENDS Integers, Sequences, FiniteSets, TLC

\* ------------------------------------------------------------- bounds

\* Longest list get_required_instance_extensions returns.
MaxWindowExts == 2
\* Calls of App::destroy a caller makes.
MaxDestroy == 2

\* ---------------------------------------------------------- constants

\* Version::new(1, 3, 126)
PORTABILITY_MACOS_VERSION == <<1, 3, 126>>

VALIDATION_LAYER == "VK_LAYER_KHRONOS_validation"
EXT_DEBUG_UTILS_EXTENSION == "VK_EXT_debug_utils"
KHR_GET_PHYSICAL_DEVICE_PROPERTIES2_EXTENSION == "VK_KHR_get_physical_device_properties2"
KHR_PORTABILITY_ENUMERATION_EXTENSION == "VK_KHR_portability_enumeration"
ENUMERATE_PORTABILITY_KHR == "ENUMERATE_PORTABILITY_KHR"

\* vk::FALSE, the Bool32 the callback returns.
FALSE32 == 0
\* DebugUtilsMessengerEXT::default(), the null handle.
NULL_HANDLE == 0

\* DebugUtilsMessageSeverityFlagsEXT bits.
SEVERITY_VERBOSE == 1
SEVERITY_INFO == 16
SEVERITY_WARNING == 256
SEVERITY_ERROR == 4096

\* ------------------------------------------------- the host's answers

\* Names the windowing library asks for: the surface extensions.
SurfaceNames == {"VK_KHR_surface", "VK_EXT_metal_surface"}
\* Names an arbitrary window collaborator could ask for.
AnyNames == SurfaceNames \cup {EXT_DEBUG_UTILS_EXTENSION,
                               KHR_PORTABILITY_ENUMERATION_EXTENSION}

SeqsUpTo(S, n) == UNION {[1..k -> S] : k \in 0..n}

WindowLists == SeqsUpTo(SurfaceNames, MaxWindowExts)
AnyWindowLists == SeqsUpTo(AnyNames, MaxWindowExts)

\* Layers a host may have installed.
HostLayerNames == {VALIDATION_LAYER, "VK_LAYER_LUNARG_api_dump"}
\* Versions vkEnumerateInstanceVersion may report.
Versions == {<<1, 2, 200>>, <<1, 3, 125>>, <<1, 3, 126>>, <<1, 4, 0>>}
\* Non-null handles the API hands out.
Handles == {1, 2}

\* --------------------------------------------------------------- state

VARIABLES
    VALIDATION_ENABLED,   \* cfg!(debug_assertions) of the build
    target_os_macos,      \* cfg!(target_os = "macos") of the build
    pc,                   \* position of App::create
    window_exts,          \* what get_required_instance_extensions returned
    extensions,           \* create_instance: local `extensions`
    available_layers,     \* create_instance: local `available_layers`
    layers,               \* create_instance: local `layers`
    flags,                \* create_instance: local `flags`
    version,              \* what entry.version() returned (<<>>: not asked)
    info,                 \* the InstanceCreateInfo passed to create_instance
    instance,             \* create_instance: local `instance`
    data,                 \* App::create: local `data` (AppData)
    err,                  \* the Err App::create returned ("": none)
    app,                  \* the App returned to the caller
    calls,                \* the external calls issued, in order
    instanceLive,         \* host side: "none" | "live" | "destroyed"
    messengerLive,        \* host side: "none" | "live" | "destroyed"
    hostMessenger,        \* host side: the handle the attach call returned
    destroys,             \* calls of App::destroy so far
    renderResult,         \* what the last App::render returned
    renderedAfterDestroy, \* a render was called after a destroy
    cb,                   \* the last debug_callback invocation
    panicked,             \* debug_callback panicked: the process is gone
    crashed               \* an undefined API use ended the process

buildVars == <<VALIDATION_ENABLED, target_os_macos>>
createVars == <<pc, window_exts, extensions, available_layers, layers, flags,
                version, info, instance, data, err, app>>
hostVars == <<instanceLive, messengerLive, hostMessenger>>
callerVars == <<destroys, renderResult, renderedAfterDestroy>>
cbVars == <<cb, panicked>>
vars == <<buildVars, createVars, hostVars, callerVars, cbVars, calls, crashed>>

\* ------------------------------------------------------------- helpers

Call(op, handle) == [op |-> op, handle |-> handle]

Ops(log) == {log[i].op : i \in 1..Len(log)}

Count(log, op) == Cardinality({i \in 1..Len(log) : log[i].op = op})

\* Position of the first call of `op` in `log` (0: never called).
First(log, op) ==
    IF op \in Ops(log)
    THEN CHOOSE i \in 1..Len(log) :
             log[i].op = op /\ \A j \in 1..(i - 1) : log[j].op # op
    ELSE 0

Occurrences(s, x) == Cardinality({i \in 1..Len(s) : s[i] = x})

\* Version derives Ord: major, then minor, then patch.
VersionGe(a, b) ==
    \/ a[1] > b[1]
    \/ a[1] = b[1] /\ a[2] > b[2]
    \/ a[1] = b[1] /\ a[2] = b[2] /\ a[3] >= b[3]

NoInfo == [passed |-> FALSE, layers |-> <<>>, extensions |-> <<>>, flags |-> {}]

NoApp == [present |-> FALSE, instance |-> NULL_HANDLE,
          data |-> [messenger |-> NULL_HANDLE]]

\* AppData::default()
AppDataDefault == [messenger |-> NULL_HANDLE]

Running == ~panicked /\ ~crashed

\* ---------------------------------------------------------------- Init

Init ==
    /\ VALIDATION_ENABLED \in BOOLEAN
    /\ target_os_macos \in BOOLEAN
    /\ pc = "loader"
    /\ window_exts = <<>>
    /\ extensions = <<>>
    /\ available_layers = {}
    /\ layers = <<>>
    /\ flags = {}
    /\ version = <<>>
    /\ info = NoInfo
    /\ instance = NULL_HANDLE
    /\ data = AppDataDefault
    /\ err = ""
    /\ app = NoApp
    /\ calls = <<>>
    /\ instanceLive = "none"
    /\ messengerLive = "none"
    /\ hostMessenger = NULL_HANDLE
    /\ destroys = 0
    /\ renderResult = "none"
    /\ renderedAfterDestroy = FALSE
    /\ cb = [called |-> FALSE, severity |-> 0, type_ |-> 0, message |-> <<>>,
             entries |-> <<>>, ret |-> {}]
    /\ panicked = FALSE
    /\ crashed = FALSE

\* ------------------------------------------------ create_instance logic

\* Mutant of Propagate: the Err is noted and the function carries on.
PropagateIgnored(ok, next) == next

\* The `?` operator: on Err the function returns at once.
Propagate(ok, next) == IF ok THEN next ELSE "failed"

\* Mutant of LayerCheckFails: the check of line 104 is left out.
LayerCheckSkipped(validation, available) == FALSE

\* Line 104: the validation layer was requested and the host lacks it.
LayerCheckFails(validation, available) ==
    validation /\ VALIDATION_LAYER \notin available

\* Mutant of PushDebugUtils: the push is not guarded by the build flag.
PushDebugUtilsAlways(exts, validation) == Append(exts, EXT_DEBUG_UTILS_EXTENSION)

\* Lines 108-110.
PushDebugUtils(exts, validation) ==
    IF validation THEN Append(exts, EXT_DEBUG_UTILS_EXTENSION) ELSE exts

\* Lines 112-116.
LayersFor(validation) ==
    IF validation THEN <<VALIDATION_LAYER>> ELSE <<>>

\* Mutant of PortabilityCondition: > where the code has >=.
PortabilityConditionStrict(v) ==
    VersionGe(v, PORTABILITY_MACOS_VERSION) /\ v # PORTABILITY_MACOS_VERSION

\* Line 118, right operand: entry.version()? >= PORTABILITY_MACOS_VERSION.
PortabilityCondition(v) == VersionGe(v, PORTABILITY_MACOS_VERSION)

\* Mutant of PushPortability: a name the list already holds is not pushed.
PushPortabilityDedup(exts) ==
    LET push(l, x) == IF \E i \in 1..Len(l) : l[i] = x THEN l ELSE Append(l, x)
    IN push(push(exts, KHR_GET_PHYSICAL_DEVICE_PROPERTIES2_EXTENSION),
            KHR_PORTABILITY_ENUMERATION_EXTENSION)

\* Lines 120-121.
PushPortability(exts) ==
    Append(Append(exts, KHR_GET_PHYSICAL_DEVICE_PROPERTIES2_EXTENSION),
           KHR_PORTABILITY_ENUMERATION_EXTENSION)

\* Mutant of MessengerWanted: the attach of lines 136-143 is left out.
MessengerNeverWanted(validation) == FALSE

\* Line 136: the messenger is attached in validation builds only.
MessengerWanted(validation) == validation

\* ----------------------------------------------------------- App::create

\* Line 55: LibloadingLoader::new(LIBRARY)?
LoaderNew ==
    /\ pc = "loader" /\ Running
    /\ \E ok \in BOOLEAN :
        /\ calls' = Append(calls, Call("LibloadingLoader::new", NULL_HANDLE))
        /\ pc' = Propagate(ok, "entry")
        /\ err' = IF ok THEN err ELSE "LoaderError"
    /\ UNCHANGED <<buildVars, window_exts, extensions, available_layers, layers,
                   flags, version, info, instance, data, app, hostVars,
                   callerVars, cbVars, crashed>>

\* Lines 56-57: Entry::new(loader)?, then AppData::default().
EntryNew ==
    /\ pc = "entry" /\ Running
    /\ \E ok \in BOOLEAN :
        /\ calls' = Append(calls, Call("Entry::new", NULL_HANDLE))
        /\ pc' = Propagate(ok, "window")
        /\ err' = IF ok THEN err ELSE "LoaderError"
    /\ data' = AppDataDefault
    /\ UNCHANGED <<buildVars, window_exts, extensions, available_layers, layers,
                   flags, version, info, instance, app, hostVars,
                   callerVars, cbVars, crashed>>

\* Lines 93-96: the extension list starts as the window's list.
RequiredExtensions(lists) ==
    /\ pc = "window" /\ Running
    /\ \E w \in lists :
        /\ window_exts' = w
        /\ extensions' = w
    /\ calls' = Append(calls, Call("get_required_instance_extensions", NULL_HANDLE))
    /\ pc' = "enumerate_layers"
    /\ UNCHANGED <<buildVars, available_layers, layers, flags, version, info,
                   instance, data, err, app, hostVars, callerVars, cbVars,
                   crashed>>

GetRequiredInstanceExtensions == RequiredExtensions(WindowLists)

GetRequiredInstanceExtensionsAny == RequiredExtensions(AnyWindowLists)

\* Lines 98-102: entry.enumerate_instance_layer_properties()?
EnumerateLayers ==
    /\ pc = "enumerate_layers" /\ Running
    /\ \E ok \in BOOLEAN, L \in SUBSET HostLayerNames :
        /\ available_layers' = IF ok THEN L ELSE available_layers
        /\ pc' = Propagate(ok, "check_layer")
        /\ err' = IF ok THEN err ELSE "LayerQueryError"
    /\ calls' = Append(calls, Call("enumerate_instance_layer_properties", NULL_HANDLE))
    /\ UNCHANGED <<buildVars, window_exts, extensions, layers, flags, version,
                   info, instance, data, app, hostVars, callerVars, cbVars,
                   crashed>>

\* Lines 104-116: the layer check, then the diagnostics extension and layer.
NegotiateLayers ==
    /\ pc = "check_layer" /\ Running
    /\ IF LayerCheckFails(VALIDATION_ENABLED, available_layers)
       THEN /\ pc' = "failed"
            /\ err' = "UnsupportedLayerError"
            /\ UNCHANGED <<extensions, layers>>
       ELSE /\ extensions' = PushDebugUtils(extensions, VALIDATION_ENABLED)
            /\ layers' = LayersFor(VALIDATION_ENABLED)
            /\ pc' = "portability"
            /\ err' = err
    /\ UNCHANGED <<buildVars, window_exts, available_layers, flags, version,
                   info, instance, data, app, hostVars, callerVars, cbVars,
                   calls, crashed>>

\* Lines 118-126 off macOS: cfg!(target_os = "macos") is false and && never
\* evaluates entry.version().
PortabilityOther ==
    /\ pc = "portability" /\ Running
    /\ ~target_os_macos
    /\ flags' = {}
    /\ pc' = "create_instance"
    /\ UNCHANGED <<buildVars, window_exts, extensions, available_layers, layers,
                   version, info, instance, data, err, app, hostVars,
                   callerVars, cbVars, calls, crashed>>

\* Lines 118-126 on macOS: entry.version()? against the threshold.
PortabilityMacos ==
    /\ pc = "portability" /\ Running
    /\ target_os_macos
    /\ calls' = Append(calls, Call("version", NULL_HANDLE))
    /\ \E ok \in BOOLEAN, v \in Versions :
        /\ pc' = Propagate(ok, "create_instance")
        /\ err' = IF ok THEN err ELSE "VersionQueryError"
        /\ version' = IF ok THEN v ELSE version
        /\ IF ok /\ PortabilityCondition(v)
           THEN /\ extensions' = PushPortability(extensions)
                /\ flags' = {ENUMERATE_PORTABILITY_KHR}
           ELSE /\ extensions' = extensions
                /\ flags' = {}
    /\ UNCHANGED <<buildVars, window_exts, available_layers, layers, info,
                   instance, data, app, hostVars, callerVars, cbVars, crashed>>

\* Lines 128-134: entry.create_instance(&info, None)?
CreateInstance ==
    /\ pc = "create_instance" /\ Running
    /\ calls' = Append(calls, Call("create_instance", NULL_HANDLE))
    /\ info' = [passed |-> TRUE, layers |-> layers, extensions |-> extensions,
                flags |-> flags]
    /\ \E ok \in BOOLEAN, h \in Handles :
        /\ instance' = IF ok THEN h ELSE instance
        /\ instanceLive' = IF ok THEN "live" ELSE instanceLive
        /\ pc' = Propagate(ok, IF MessengerWanted(VALIDATION_ENABLED)
                               THEN "messenger" ELSE "return")
        /\ err' = IF ok THEN err ELSE "InstanceCreationError"
    /\ UNCHANGED <<buildVars, window_exts, extensions, available_layers, layers,
                   flags, version, data, app, messengerLive, hostMessenger,
                   callerVars, cbVars, crashed>>

\* Mutant of StoreMessenger: the handle is dropped, `data` stays as it was.
StoreMessengerDropped(d, h) == d

\* Line 142: data.messenger = <the handle returned>.
StoreMessenger(d, h) == [d EXCEPT !.messenger = h]

\* Lines 136-143: instance.create_debug_utils_messenger_ext(&debug_info, None)?
CreateMessenger ==
    /\ pc = "messenger" /\ Running
    /\ calls' = Append(calls, Call("create_debug_utils_messenger_ext", instance))
    /\ \E ok \in BOOLEAN, h \in Handles :
        /\ data' = IF ok THEN StoreMessenger(data, h) ELSE data
        /\ messengerLive' = IF ok THEN "live" ELSE messengerLive
        /\ hostMessenger' = IF ok THEN h ELSE hostMessenger
        /\ pc' = Propagate(ok, "return")
        /\ err' = IF ok THEN err ELSE "DiagnosticsInstallError"
    /\ UNCHANGED <<buildVars, window_exts, extensions, available_layers, layers,
                   flags, version, info, instance, app, instanceLive,
                   callerVars, cbVars, crashed>>

\* Lines 145 and 60-64: Ok(instance), then Ok(Self { entry, data, instance }).
Return ==
    /\ pc = "return" /\ Running
    /\ app' = [present |-> TRUE, instance |-> instance, data |-> data]
    /\ pc' = "done"
    /\ UNCHANGED <<buildVars, window_exts, extensions, available_layers, layers,
                   flags, version, info, instance, data, err, hostVars,
                   callerVars, cbVars, calls, crashed>>

\* -------------------------------------------------------- debug_callback

\* DebugUtilsMessageSeverityFlagsEXT: the API passes one bit per event.
Severities == {SEVERITY_VERBOSE, SEVERITY_INFO, SEVERITY_WARNING, SEVERITY_ERROR}
\* DebugUtilsMessageTypeFlagsEXT: GENERAL, VALIDATION.
Types == {1, 2}

\* The texts pMessage may hold (the API passes null-terminated UTF-8), as
\* bytes: "", "A", U+00E9, "A" U+00E9.
Messages == {<<>>, <<65>>, <<195, 169>>, <<65, 195, 169>>}

\* The memory pMessage points to.
CBuffer(m) == m \o <<0>>

\* CStr::from_ptr: the bytes before the first NUL.
CStrFromPtr(buf) ==
    LET n == CHOOSE i \in 1..Len(buf) :
                 buf[i] = 0 /\ \A j \in 1..(i - 1) : buf[j] # 0
    IN SubSeq(buf, 1, n - 1)

IsContinuation(b) == b >= 128 /\ b <= 191

\* Bytes the UTF-8 sequence led by b takes (0: b leads none).
Utf8Width(b) ==
    IF b < 128 THEN 1
    ELSE IF b >= 194 /\ b <= 223 THEN 2
    ELSE IF b >= 224 /\ b <= 239 THEN 3
    ELSE IF b >= 240 /\ b <= 244 THEN 4
    ELSE 0

\* CStr::to_string_lossy: well-formed sequences are kept, every other byte
\* becomes U+FFFD (EF BF BD).
RECURSIVE to_string_lossy(_)
to_string_lossy(bytes) ==
    IF bytes = <<>> THEN <<>>
    ELSE LET w == Utf8Width(Head(bytes))
             wellFormed == /\ w >= 1
                           /\ w <= Len(bytes)
                           /\ \A i \in 2..w : IsContinuation(bytes[i])
         IN IF wellFormed
            THEN SubSeq(bytes, 1, w) \o to_string_lossy(SubSeq(bytes, w + 1, Len(bytes)))
            ELSE <<239, 191, 189>> \o to_string_lossy(Tail(bytes))

\* Mutant of Route: > where the code has >=.
RouteStrict(severity) ==
    IF severity > SEVERITY_ERROR THEN <<"panic!">>
    ELSE IF severity > SEVERITY_WARNING THEN <<"warn!">>
    ELSE IF severity > SEVERITY_INFO THEN <<"dbg!">>
    ELSE <<"println!">>

\* Lines 33-41: the sink the if / else-if chain selects.
Route(severity) ==
    IF severity >= SEVERITY_ERROR THEN <<"panic!">>
    ELSE IF severity >= SEVERITY_WARNING THEN <<"warn!">>
    ELSE IF severity >= SEVERITY_INFO THEN <<"dbg!">>
    ELSE <<"println!">>

\* Mutant of CallbackReturn: vk::TRUE, which asks the API to abort the call.
CallbackReturnTrue == FALSE32 + 1

\* Line 43: the value returned when the chain falls through.
CallbackReturn == FALSE32

\* Lines 24-44. Each sink is handed "({:?}) {}", type_ and message; panic!
\* does not return.
debug_callback(severity, type_, data_) ==
    LET message == to_string_lossy(CStrFromPtr(data_.message))
        sinks == Route(severity)
        aborts == \E i \in 1..Len(sinks) : sinks[i] = "panic!"
    IN [entries |-> [i \in 1..Len(sinks) |->
                        [sink |-> sinks[i], fmt |-> "({:?}) {}",
                         type_ |-> type_, message |-> message]],
        ret |-> IF aborts THEN {} ELSE {CallbackReturn}]

Aborted(entries) == \E i \in 1..Len(entries) : entries[i].sink = "panic!"

\* Mutant of DebugCallback: the callback records a warning or error in the
\* error slot initialization shares with it.
DebugCallbackRecording ==
    /\ Running
    /\ messengerLive = "live" /\ instanceLive = "live"
    /\ \E severity \in Severities, type_ \in Types, m \in Messages :
        LET r == debug_callback(severity, type_, [message |-> CBuffer(m)])
        IN /\ cb' = [called |-> TRUE, severity |-> severity, type_ |-> type_,
                     message |-> m, entries |-> r.entries, ret |-> r.ret]
           /\ panicked' = Aborted(r.entries)
           /\ err' = IF severity >= SEVERITY_WARNING THEN "Diagnostic" ELSE err
    /\ UNCHANGED <<buildVars, pc, window_exts, extensions, available_layers,
                   layers, flags, version, info, instance, data, app, hostVars,
                   callerVars, calls, crashed>>

\* The API invokes the callback of a live messenger, on a thread of its own.
DebugCallback ==
    /\ Running
    /\ messengerLive = "live" /\ instanceLive = "live"
    /\ \E severity \in Severities, type_ \in Types, m \in Messages :
        LET r == debug_callback(severity, type_, [message |-> CBuffer(m)])
        IN /\ cb' = [called |-> TRUE, severity |-> severity, type_ |-> type_,
                     message |-> m, entries |-> r.entries, ret |-> r.ret]
           /\ panicked' = Aborted(r.entries)
    /\ UNCHANGED <<buildVars, createVars, hostVars, callerVars, calls, crashed>>

\* ------------------------------------------------- App::render / destroy

\* Line 68: Ok(())
RenderReturn(a) == "Ok"

\* Lines 67-69.
Render ==
    /\ Running
    /\ app.present
    /\ renderResult' = RenderReturn(app)
    /\ renderedAfterDestroy' = (renderedAfterDestroy \/ destroys > 0)
    /\ UNCHANGED <<buildVars, createVars, hostVars, destroys, cbVars, calls,
                   crashed>>

\* Mutant of DestroyCalls: a repeated destroy is turned into a no-op.
DestroyCallsOnce(a) ==
    IF instanceLive = "destroyed" THEN <<>>
    ELSE <<Call("destroy_instance", a.instance)>>

\* Lines 71-73: the calls App::destroy issues.
DestroyCalls(a) == <<Call("destroy_instance", a.instance)>>

\* vkDestroyInstance on a destroyed instance, or on one whose messenger was
\* not destroyed, is undefined in the API.
DestroyUndefined == instanceLive = "destroyed" \/ messengerLive = "live"

\* Lines 71-73. An undefined use may end the process or go unnoticed.
Destroy ==
    /\ Running
    /\ app.present
    /\ destroys < MaxDestroy
    /\ destroys' = destroys + 1
    /\ calls' = calls \o DestroyCalls(app)
    /\ instanceLive' = "destroyed"
    /\ messengerLive' =
           IF \E i \in 1..Len(DestroyCalls(app)) :
                  DestroyCalls(app)[i].op = "destroy_debug_utils_messenger_ext"
           THEN "destroyed" ELSE messengerLive
    /\ \E c \in BOOLEAN : crashed' = (DestroyUndefined /\ c)
    /\ UNCHANGED <<buildVars, createVars, renderResult, renderedAfterDestroy,
                   cbVars, hostMessenger>>

\* ---------------------------------------------------------------- Next

Next ==
    \/ LoaderNew
    \/ EntryNew
    \/ GetRequiredInstanceExtensions
    \/ EnumerateLayers
    \/ NegotiateLayers
    \/ PortabilityOther
    \/ PortabilityMacos
    \/ CreateInstance
    \/ CreateMessenger
    \/ Return
    \/ Render
    \/ Destroy
    \/ DebugCallback

Spec == Init /\ [][Next]_vars

\* App::create with a window collaborator that may ask for any name.
NextAnyWindow ==
    \/ LoaderNew
    \/ EntryNew
    \/ GetRequiredInstanceExtensionsAny
    \/ EnumerateLayers
    \/ NegotiateLayers
    \/ PortabilityOther
    \/ PortabilityMacos
    \/ CreateInstance
    \/ CreateMessenger
    \/ Return

SpecAnyWindow == Init /\ [][NextAnyWindow]_vars

\* ----------------------------------------------------- claims C1 .. C10

\* The layer query was invoked and answered.
LayerQueried ==
    /\ "enumerate_instance_layer_properties" \in Ops(calls)
    /\ err # "LayerQueryError"

\* The packed number vkEnumerateInstanceVersion reports for version v.
Packed(v) == v[1] * 4194304 + v[2] * 4096 + v[3]

\* C1: for every context that holds a messenger handle, every instance-destroy
\* call App::destroy issues is preceded by a messenger-destroy call for that
\* handle, and the instance is never destroyed while its messenger still lives.
C1_MessengerDestroyedFirst ==
    /\ \A i \in 1..Len(calls) :
           (calls[i].op = "destroy_instance" /\ app.data.messenger # NULL_HANDLE)
           => \E j \in 1..(i - 1) :
                  /\ calls[j].op = "destroy_debug_utils_messenger_ext"
                  /\ calls[j].handle = app.data.messenger
    /\ ~(instanceLive = "destroyed" /\ messengerLive = "live")

\* C2: with diagnostics enabled and the validation layer missing from the
\* layers the host reported, initialization fails with the unsupported-layer
\* error, and neither instance creation nor messenger attach is ever invoked.
C2_MissingLayerFailsBeforeCreation ==
    (VALIDATION_ENABLED /\ LayerQueried /\ VALIDATION_LAYER \notin available_layers)
    => /\ pc \in {"check_layer", "failed"}
       /\ pc = "failed" => err = "UnsupportedLayerError"
       /\ "create_instance" \notin Ops(calls)
       /\ "create_debug_utils_messenger_ext" \notin Ops(calls)
       /\ ~info.passed
       /\ ~app.present
       /\ instanceLive = "none" /\ messengerLive = "none"

C2_Witness ==
    /\ VALIDATION_ENABLED /\ LayerQueried
    /\ VALIDATION_LAYER \notin available_layers
    /\ pc = "failed" /\ err = "UnsupportedLayerError"

\* C3: a returned context holds a non-null messenger handle exactly when
\* diagnostics were enabled and the validation layer was found; with both, the
\* handle is the non-null one of a live messenger.
C3_MessengerIffDiagnostics ==
    app.present =>
        /\ (app.data.messenger # NULL_HANDLE)
               <=> (VALIDATION_ENABLED /\ LayerQueried
                    /\ VALIDATION_LAYER \in available_layers)
        /\ (VALIDATION_ENABLED /\ VALIDATION_LAYER \in available_layers)
               => (app.data.messenger \in Handles /\ messengerLive = "live")

C3_Witness ==
    /\ app.present /\ VALIDATION_ENABLED
    /\ VALIDATION_LAYER \in available_layers
    /\ app.data.messenger # NULL_HANDLE

\* C4: with diagnostics disabled, whatever the window asks for and whatever
\* layers the host has: the layer list passed to instance creation is empty,
\* the diagnostics extension is never appended (the list holds it as often as
\* the window's list does), messenger attach is never invoked and the
\* context's messenger handle is null.
C4_DiagnosticsDisabled ==
    ~VALIDATION_ENABLED =>
        /\ layers = <<>>
        /\ info.passed => info.layers = <<>>
        /\ Occurrences(extensions, EXT_DEBUG_UTILS_EXTENSION)
               = Occurrences(window_exts, EXT_DEBUG_UTILS_EXTENSION)
        /\ info.passed =>
               Occurrences(info.extensions, EXT_DEBUG_UTILS_EXTENSION)
                   = Occurrences(window_exts, EXT_DEBUG_UTILS_EXTENSION)
        /\ "create_debug_utils_messenger_ext" \notin Ops(calls)
        /\ messengerLive = "none"
        /\ data.messenger = NULL_HANDLE
        /\ app.present => app.data.messenger = NULL_HANDLE

C4_Witness ==
    /\ ~VALIDATION_ENABLED /\ app.present /\ info.passed
    /\ VALIDATION_LAYER \in available_layers
    /\ Len(window_exts) = MaxWindowExts
    /\ Occurrences(window_exts, EXT_DEBUG_UTILS_EXTENSION) = 1

\* C5: on macOS with a loaded version at or above 1.3.126, the extension list
\* passed to instance creation holds each portability name exactly once and
\* the flags hold the portability-enumeration bit; below the threshold, and on
\* every other platform, the list holds neither name and the flags are empty.
C5_Portability ==
    info.passed =>
        IF target_os_macos /\ version # <<>>
           /\ Packed(version) >= Packed(<<1, 3, 126>>)
        THEN /\ Occurrences(info.extensions,
                            KHR_GET_PHYSICAL_DEVICE_PROPERTIES2_EXTENSION) = 1
             /\ Occurrences(info.extensions,
                            KHR_PORTABILITY_ENUMERATION_EXTENSION) = 1
             /\ ENUMERATE_PORTABILITY_KHR \in info.flags
        ELSE /\ Occurrences(info.extensions,
                            KHR_GET_PHYSICAL_DEVICE_PROPERTIES2_EXTENSION) = 0
             /\ Occurrences(info.extensions,
                            KHR_PORTABILITY_ENUMERATION_EXTENSION) = 0
             /\ info.flags = {}

C5_Witness ==
    /\ info.passed /\ target_os_macos
    /\ version = <<1, 3, 126>>
    /\ ENUMERATE_PORTABILITY_KHR \in info.flags
    /\ Len(info.extensions) = Len(window_exts) + 3

\* The sink the routing table gives a severity.
ExpectedSink(severity) ==
    CASE severity = SEVERITY_VERBOSE -> "println!"
      [] severity = SEVERITY_INFO -> "dbg!"
      [] severity = SEVERITY_WARNING -> "warn!"
      [] severity = SEVERITY_ERROR -> "panic!"

\* C6: every diagnostic event has exactly one outcome, chosen by its severity
\* alone (verbose: println!, info: dbg!, warning: warn!, error: panic! and no
\* log entry), and that outcome is handed the type and the message of the
\* event unchanged; the process aborts exactly on error.
C6_Routing ==
    cb.called =>
        /\ Len(cb.entries) = 1
        /\ cb.entries[1].sink = ExpectedSink(cb.severity)
        /\ cb.entries[1].type_ = cb.type_
        /\ cb.entries[1].message = cb.message
        /\ panicked <=> cb.severity = SEVERITY_ERROR

C6_Witness ==
    /\ cb.called /\ cb.severity = SEVERITY_ERROR /\ panicked
    /\ cb.message = <<65, 195, 169>>
    /\ cb.entries[1].sink = "panic!"

\* C7: every invocation of the callback that does not abort returns vk::FALSE
\* and nothing else.
C7_ReturnsFalse ==
    (cb.called /\ ~Aborted(cb.entries)) => cb.ret = {FALSE32}

C7_Witness ==
    /\ cb.called /\ cb.severity = SEVERITY_WARNING
    /\ ~panicked /\ cb.ret = {FALSE32}

\* The calls of one initialization.
CreateOps ==
    {"LibloadingLoader::new", "Entry::new", "get_required_instance_extensions",
     "enumerate_instance_layer_properties", "version", "create_instance",
     "create_debug_utils_messenger_ext"}

C8_FailedState ==
    /\ err # "" => (pc = "failed" /\ ~app.present)
    /\ pc = "failed" =>
           /\ err # "" /\ ~app.present
           /\ "destroy_instance" \notin Ops(calls)
           /\ "destroy_debug_utils_messenger_ext" \notin Ops(calls)
           /\ instanceLive # "destroyed" /\ messengerLive # "destroyed"
    /\ \A op \in CreateOps : Count(calls, op) <= 1

\* C8: initialization surfaces the first failure and stops: after a failed
\* step no further call is issued, no context is returned, the error stays the
\* first one, no call of the initialization is issued twice and nothing
\* already acquired is destroyed.
C8_FirstFailureStops ==
    /\ []C8_FailedState
    /\ [][pc = "failed" =>
             (calls' = calls /\ pc' = pc /\ err' = err /\ app' = app)]_vars

C8_Witness ==
    /\ pc = "failed" /\ err = "DiagnosticsInstallError"
    /\ instanceLive = "live" /\ instance \in Handles
    /\ ~app.present

C9_DestroyState ==
    /\ Count(calls, "destroy_instance") = destroys
    /\ \A i \in 1..Len(calls) :
           calls[i].op = "destroy_instance" => calls[i].handle = app.instance
    /\ destroys = 1 => Count(calls, "destroy_instance") = 1
    /\ renderResult \in {"none", "Ok"}
    /\ renderedAfterDestroy => renderResult = "Ok"

\* C9: teardown is unguarded: every call of App::destroy issues one
\* instance-destroy call on the context's handle and leaves the context as it
\* was (two calls give two instance-destroy calls, one call gives one), and a
\* render after teardown returns Ok.
C9_TeardownUnguarded ==
    /\ []C9_DestroyState
    /\ [][destroys' # destroys =>
             /\ calls' = Append(calls, Call("destroy_instance", app.instance))
             /\ app' = app]_vars

C9_Witness ==
    /\ destroys = 2 /\ Count(calls, "destroy_instance") = 2
    /\ renderedAfterDestroy /\ renderResult = "Ok"

\* The order in which one initialization issues its calls.
CreateOrder ==
    <<"LibloadingLoader::new", "Entry::new", "get_required_instance_extensions",
      "enumerate_instance_layer_properties", "version", "create_instance",
      "create_debug_utils_messenger_ext">>

C10_CallOrder ==
    /\ \A i, j \in 1..Len(CreateOrder) :
           (i < j /\ CreateOrder[j] \in Ops(calls)) =>
               /\ CreateOrder[i] \in Ops(calls) \/ CreateOrder[i] = "version"
               /\ CreateOrder[i] \in Ops(calls) =>
                      First(calls, CreateOrder[i]) < First(calls, CreateOrder[j])
    /\ "create_instance" \in Ops(calls) =>
           /\ LayerQueried
           /\ VALIDATION_ENABLED => VALIDATION_LAYER \in available_layers
           /\ info.layers = IF VALIDATION_ENABLED THEN <<VALIDATION_LAYER>> ELSE <<>>
    /\ "create_debug_utils_messenger_ext" \in Ops(calls) =>
           (instanceLive # "none" /\ instance \in Handles)

\* C10 as stated: the steps run in order, the extension list is complete
\* before the layer query starts, the layer check is complete before instance
\* creation, and messenger attach follows a successful instance creation.
C10_ExtensionsCompleteBeforeLayerQuery ==
    /\ []C10_CallOrder
    /\ []["enumerate_instance_layer_properties" \in Ops(calls)
             => extensions' = extensions]_vars

\* C10 amended: the calls run in order; the extension list starts as the
\* window's list before the layer query, grows only after the layer query was
\* answered and the layer check passed, and is complete before instance
\* creation is invoked; the layer check is complete before instance creation,
\* and messenger attach follows a successful instance creation.
C10_ExtensionsCompleteBeforeCreation ==
    /\ []C10_CallOrder
    /\ [][extensions' # extensions =>
             \/ pc = "window"
             \/ /\ LayerQueried
                /\ VALIDATION_ENABLED => VALIDATION_LAYER \in available_layers
                /\ "create_instance" \notin Ops(calls')]_vars

C10_Witness ==
    /\ pc = "done" /\ VALIDATION_ENABLED /\ target_os_macos
    /\ Len(calls) = Len(CreateOrder)
    /\ Len(extensions) = Len(window_exts) + 3

\* ---------------------------------------------------- claims C11 .. C14

\* The portability rule applied: macOS and a loaded version >= 1.3.126.
PortabilityApplied ==
    target_os_macos /\ version # <<>> /\ Packed(version) >= Packed(<<1, 3, 126>>)

\* C11: the list passed to instance creation is the window's list, in its
\* order and with its repetitions, followed by the diagnostics extension iff
\* diagnostics is enabled, followed by the portability pair iff the
\* portability rule applies; nothing is removed and nothing deduplicated.
C11_ExtensionsOnlyAppended ==
    info.passed =>
        info.extensions =
            window_exts
            \o (IF VALIDATION_ENABLED THEN <<EXT_DEBUG_UTILS_EXTENSION>> ELSE <<>>)
            \o (IF PortabilityApplied
                THEN <<KHR_GET_PHYSICAL_DEVICE_PROPERTIES2_EXTENSION,
                       KHR_PORTABILITY_ENUMERATION_EXTENSION>>
                ELSE <<>>)

C11_Witness ==
    /\ info.passed /\ VALIDATION_ENABLED /\ PortabilityApplied
    /\ window_exts = <<KHR_PORTABILITY_ENUMERATION_EXTENSION,
                       EXT_DEBUG_UTILS_EXTENSION>>
    /\ Occurrences(info.extensions, EXT_DEBUG_UTILS_EXTENSION) = 2
    /\ Occurrences(info.extensions, KHR_PORTABILITY_ENUMERATION_EXTENSION) = 2

\* C12: with diagnostics disabled, layer negotiation never fails, whatever
\* layers the host has and however its layer query ends: once the query was
\* invoked, initialization has not failed in layer negotiation and the layer
\* list, also the one passed to instance creation, is empty.
C12_DisabledNegotiationNeverFails ==
    (~VALIDATION_ENABLED /\ "enumerate_instance_layer_properties" \in Ops(calls))
    => /\ err \notin {"LayerQueryError", "UnsupportedLayerError"}
       /\ pc # "failed" \/ "create_instance" \in Ops(calls)
       /\ layers = <<>>
       /\ info.passed => info.layers = <<>>

\* C13: when messenger attach fails after instance creation succeeded,
\* initialization fails with the diagnostics-install error, returns no
\* context, leaves the messenger handle null and does not destroy the instance
\* it created; when attach succeeds, the context returned stores the handle
\* the attach call returned.
C13_AttachFailureAndSuccess ==
    /\ err = "DiagnosticsInstallError" =>
           /\ pc = "failed"
           /\ ~app.present
           /\ data.messenger = NULL_HANDLE /\ app.data.messenger = NULL_HANDLE
           /\ messengerLive = "none" /\ hostMessenger = NULL_HANDLE
           /\ instanceLive = "live" /\ instance \in Handles
           /\ Count(calls, "create_instance") = 1
           /\ "destroy_instance" \notin Ops(calls)
    /\ ("create_debug_utils_messenger_ext" \in Ops(calls) /\ pc = "failed")
           => err = "DiagnosticsInstallError"
    /\ (app.present /\ messengerLive # "none") =>
           /\ hostMessenger \in Handles
           /\ app.data.messenger = hostMessenger

C13_WitnessStored ==
    /\ app.present /\ messengerLive = "live"
    /\ hostMessenger = 2 /\ app.data.messenger = 2
    /\ instance = 1

C13_Witness ==
    /\ err = "DiagnosticsInstallError" /\ pc = "failed"
    /\ instanceLive = "live" /\ ~app.present

\* C14: an invocation of the callback, wherever it falls between the steps
\* of initialization, render and teardown, changes nothing but its own
\* outcome: build, initialization, host, caller and call-log state stay as
\* they were, and the outcome is the one its own severity, type and message
\* give, whatever the state it ran in.
C14_CallbackTouchesNoContext ==
    [][cb' # cb =>
          /\ UNCHANGED <<buildVars, createVars, hostVars, callerVars, calls,
                         crashed>>
          /\ cb'.called
          /\ Len(cb'.entries) = 1
          /\ cb'.entries[1] = [sink |-> ExpectedSink(cb'.severity),
                               fmt |-> "({:?}) {}",
                               type_ |-> cb'.type_,
                               message |-> cb'.message]
          /\ panicked' = (cb'.severity = SEVERITY_ERROR)]_vars

\* A callback that did not abort ran before App::create returned its context.
C14_Witness ==
    /\ cb.called /\ ~panicked
    /\ cb.severity = SEVERITY_INFO
    /\ pc = "return" /\ ~app.present

\* A callback that did not abort ran between a teardown and a render.
C14_WitnessAfterCreate ==
    /\ cb.called /\ ~panicked
    /\ app.present /\ app.data.messenger = hostMessenger
    /\ renderResult = "Ok" /\ destroys = 1

====
